---------------------------- MODULE Spec2Model ----------------------------
(***************************************************************************)
(* Model of the schema reference resolver and example generator of        *)
(* swagger2postman.py (class SwaggerToPostmanConverter): resolve_ref,      *)
(* simplify_schema and generate_example_from_schema, run as an explicit   *)
(* call stack so that every nested call is a step of the model.           *)
(*                                                                         *)
(* JSON values are records.  A Python dict is a record whose fields are   *)
(* its keys (the key '$ref' is written ref); every other Python value is  *)
(* a record with the field py naming its Python type.  A pointer string   *)
(* is kept as the sequence of its '/'-separated parts, which is what      *)
(* ref.split('/') returns, and an f-string as its text and its argument.  *)
(***************************************************************************)
EXTENDS Integers, Sequences, FiniteSets, TLC

VARIABLES swagger_data, components, circular_refs, processed_refs,
          max_recursion_depth, stack, ret, call, ncalls, results, requests

vars == <<swagger_data, components, circular_refs, processed_refs,
          max_recursion_depth, stack, ret, call, ncalls, results, requests>>

(* ------------------------------ bounds -------------------------------- *)

\* Longest chain or ring of schemas a generated document holds.
MaxChain == 11

\* Number of top-level calls made on one converter.
MaxCalls == 2

(* ---------------------------- JSON values ------------------------------ *)

EmptyDict == [k \in {} |-> 0]

IsDict(v) == "py" \notin DOMAIN v

Has(v, k) == k \in DOMAIN v

Str(s) == [py |-> "str", s |-> s]

\* A string holding a pointer, kept as ref.split('/').
Ptr(segs) == [py |-> "str", segs |-> segs]

\* f"{text}{ref}]"
FStr(text, segs) == [py |-> "str", fmt |-> text, arg |-> segs]

None == [py |-> "NoneType"]

PyInt(n) == [py |-> "int", n |-> n]

PyFloat(n) == [py |-> "float", n |-> n]

PyBool(b) == [py |-> "bool", b |-> b]

PyList(elems) == [py |-> "list", elems |-> elems]

Ref(segs) == [ref |-> Ptr(segs)]

Prim(t) == [type |-> Str(t)]

Obj(props) == [type |-> Str("object"), properties |-> props]

Arr(items) == [type |-> Str("array"), items |-> items]

Range(s) == {s[i] : i \in 1..Len(s)}

(* ------------------------- the converter's data ------------------------ *)

MaxRecursionDepth == 10

\* fetch_swagger_definition: the Schema Dictionary taken from the document.
Components(data) ==
    IF ~IsDict(data) THEN EmptyDict
    ELSE LET c == IF Has(data, "components") THEN data.components ELSE EmptyDict
             s == IF Has(c, "schemas") THEN c.schemas ELSE EmptyDict
         IN  IF s = EmptyDict /\ Has(data, "definitions")
             THEN data.definitions
             ELSE s

(* ------------------------------ resolve_ref ---------------------------- *)

MaxDepthSentinel(ref) ==
    [type |-> Str("string"), example |-> FStr("[Max depth reached for: ", ref)]

CircularSentinel(ref) ==
    [type |-> Str("string"), example |-> FStr("[Circular reference: ", ref)]

FailedSentinel(ref) ==
    [type |-> Str("string"), example |-> FStr("[Failed to resolve: ", ref)]

CircularToSentinel(ref) ==
    [type |-> Str("string"), example |-> FStr("[Circular reference to: ", ref)]

\* Mutants of the depth guard: no guard at all, and a guard one level late.
DepthNeverReached(depth) == FALSE

DepthReachedLate(depth) == depth > max_recursion_depth

\* depth >= self.max_recursion_depth
DepthReached(depth) == depth >= max_recursion_depth

\* Mutants of the cycle test: a pointer also counts as a cycle when a sibling
\* property already resolved it, or when the registry already holds it; and no
\* cycle test at all.
InPathOrSibling(ref, path) ==
    \/ ref \in Range(path)
    \/ /\ stack # <<>>
       /\ \E k \in DOMAIN stack[Len(stack)].acc :
             LET prop == stack[Len(stack)].schema.properties[k]
             IN  "py" \notin DOMAIN prop /\ "ref" \in DOMAIN prop
                 /\ prop.ref.segs = ref

InPathOrFlagged(ref, path) == ref \in Range(path) \/ ref \in circular_refs

NeverInPath(ref, path) == FALSE

\* ref in path
InPath(ref, path) == ref \in Range(path)

\* Mutant: the registry is overwritten, not added to.
AddCircularOnly(registry, ref) == {ref}

\* self.circular_refs.add(ref)
AddCircular(registry, ref) == registry \cup {ref}

\* ref.startswith('#/definitions/')
IsDefinitionsRef(ref) ==
    Len(ref) >= 3 /\ ref[1] = "#" /\ ref[2] = "definitions"

\* ref.startswith('#/components/schemas/')
IsComponentsRef(ref) ==
    Len(ref) >= 4 /\ ref[1] = "#" /\ ref[2] = "components" /\ ref[3] = "schemas"

\* ref.split('/')[-1]
SchemaName(ref) == ref[Len(ref)]

\* for path_part in ref_path[1:]: ref_schema = ref_schema[path_part]
RECURSIVE Walk(_, _)
Walk(v, parts) ==
    IF parts = <<>> THEN [act |-> "simplify", schema |-> v]
    ELSE IF ~IsDict(v) THEN [act |-> "raise", exc |-> "TypeError"]
    ELSE IF ~Has(v, Head(parts)) THEN [act |-> "raise", exc |-> "KeyError"]
    ELSE Walk(v[Head(parts)], Tail(parts))

\* What the named entry of the dictionary leads to (lines 60-66, 72-77).
Entry(schema) ==
    IF IsDict(schema)
    THEN IF Has(schema, "ref")
         THEN [act |-> "resolve", ref |-> schema.ref.segs]
         ELSE [act |-> "simplify", schema |-> schema]
    ELSE [act |-> "return", v |-> schema]

\* The body of the try block up to the call it makes or the value it returns.
Lookup(ref) ==
    IF (IsDefinitionsRef(ref) \/ IsComponentsRef(ref))
       /\ Has(components, SchemaName(ref))
    THEN Entry(components[SchemaName(ref)])
    ELSE Walk(swagger_data, Tail(ref))

\* except (KeyError, IndexError)
Caught(exc) == exc \in {"KeyError", "IndexError"}


(* ---------------------------- simplify_schema -------------------------- *)

SimpleTypes == {Str("string"), Str("number"), Str("integer"), Str("boolean")}

\* 'type' in schema and schema['type'] in ['string', 'number', 'integer', 'boolean']
IsSimple(schema) == Has(schema, "type") /\ schema.type \in SimpleTypes

\* schema.get('type') == t
TypeIs(schema, t) == Has(schema, "type") /\ schema.type = Str(t)

\* schema.get('type') == 'object' or 'properties' in schema
IsObject(schema) == TypeIs(schema, "object") \/ Has(schema, "properties")

\* schema.get('type') == 'array' and 'items' in schema
IsArray(schema) == TypeIs(schema, "array") /\ Has(schema, "items")

\* schema.get('properties', {})
Properties(schema) ==
    IF Has(schema, "properties") THEN schema.properties ELSE EmptyDict

\* isinstance(prop_schema, dict) and '$ref' in prop_schema
IsReference(schema) == IsDict(schema) /\ Has(schema, "ref")

\* The order in which a dict of properties is iterated: the keys the documents
\* use, in the order the documents write them.
KeyOrder == <<"x", "y", "next", "v">>

Items(props) == SelectSeq(KeyOrder, LAMBDA k : Has(props, k))

(* -------------------- generate_example_from_schema --------------------- *)

DepthError == [error |-> Str("Max recursion depth exceeded")]

\* not schema or not isinstance(schema, dict): both return {}
IsBlank(schema) == schema = EmptyDict \/ ~IsDict(schema)

\* type_examples.get(schema_type, ''), lines 156-166
TypeExample(schema) ==
    LET t == IF Has(schema, "type") THEN schema.type ELSE Str("object")
    IN  IF IsDict(t) \/ t.py = "list"
        THEN [kind |-> "raise", exc |-> "TypeError"]
        ELSE [kind |-> "value",
              v |-> IF t = Str("string")
                    THEN (IF Has(schema, "format") THEN schema.format
                                                   ELSE Str("string"))
                    ELSE IF t = Str("integer") THEN PyInt(0)
                    ELSE IF t = Str("number") THEN PyFloat(0)
                    ELSE IF t = Str("boolean") THEN PyBool(FALSE)
                    ELSE IF t = Str("null") THEN None
                    ELSE Str("")]

(* ------------------------------ call stack ----------------------------- *)

NoRet == [kind |-> "none"]

Val(v) == [kind |-> "value", v |-> v]

Raise(exc) == [kind |-> "raise", exc |-> exc]

Idle == [fn |-> "idle"]

Frame(fn, ref, schema, depth, path) ==
    [fn |-> fn, pc |-> "entry", ref |-> ref, schema |-> schema, depth |-> depth,
     path |-> path, acc |-> EmptyDict, todo |-> <<>>]

ResolveFrame(ref, depth, path) ==
    Frame("resolve_ref", ref, EmptyDict, depth, path)

SimplifyFrame(schema, depth, path) ==
    Frame("simplify_schema", <<>>, schema, depth, path)

GenerateFrame(schema, depth) ==
    Frame("generate_example_from_schema", <<>>, schema, depth, <<>>)

Top == stack[Len(stack)]

Below == SubSeq(stack, 1, Len(stack) - 1)

Running(fn, pc) == stack # <<>> /\ Top.fn = fn /\ Top.pc = pc

\* The running call returns r to its caller.
Return(r) == stack' = Below /\ ret' = r

\* The running call moves to pc and calls f.
Invoke(pc, f) == stack' = Below \o <<[Top EXCEPT !.pc = pc], f>> /\ ret' = NoRet

\* The running call goes on at pc with the fields of g.
Goto(g) == stack' = Below \o <<g>> /\ ret' = NoRet

(* ------------------------- resolve_ref, steps -------------------------- *)

\* Lines 44-53: the depth guard, then the cycle guard.
ResolveRefEntry ==
    /\ Running("resolve_ref", "entry")
    /\ IF DepthReached(Top.depth)
       THEN /\ Return(Val(MaxDepthSentinel(Top.ref)))
            /\ UNCHANGED circular_refs
       ELSE IF InPath(Top.ref, Top.path)
       THEN /\ circular_refs' = AddCircular(circular_refs, Top.ref)
            /\ Return(Val(CircularSentinel(Top.ref)))
       ELSE /\ Goto([Top EXCEPT !.pc = "try"])
            /\ UNCHANGED circular_refs
    /\ UNCHANGED <<swagger_data, components, processed_refs, max_recursion_depth,
                   call, ncalls, results, requests>>

\* Lines 55-88: the lookup, up to the nested call or the value returned.
ResolveRefLookup ==
    /\ Running("resolve_ref", "try")
    /\ LET f == Top
           l == Lookup(f.ref)
           p == Append(f.path, f.ref)
       IN  CASE l.act = "resolve" ->
                    Invoke("await", ResolveFrame(l.ref, f.depth + 1, p))
             [] l.act = "simplify" ->
                    Invoke("await", SimplifyFrame(l.schema, f.depth + 1, p))
             [] l.act = "return" -> Return(Val(l.v))
             [] l.act = "raise" ->
                    IF Caught(l.exc) THEN Return(Val(FailedSentinel(f.ref)))
                                     ELSE Return(Raise(l.exc))
    /\ UNCHANGED <<swagger_data, components, circular_refs, processed_refs,
                   max_recursion_depth, call, ncalls, results, requests>>

\* The nested call made inside the try block comes back: its value is returned,
\* a KeyError or IndexError is turned into the sentinel, anything else goes on.
ResolveRefReturn ==
    /\ Running("resolve_ref", "await")
    /\ ret # NoRet
    /\ IF ret.kind = "raise" /\ Caught(ret.exc)
       THEN Return(Val(FailedSentinel(Top.ref)))
       ELSE Return(ret)
    /\ UNCHANGED <<swagger_data, components, circular_refs, processed_refs,
                   max_recursion_depth, call, ncalls, results, requests>>

(* ----------------------- simplify_schema, steps ------------------------ *)

\* Lines 92-101 and 117-135: everything but the loop over the properties.
SimplifySchemaEntry ==
    /\ Running("simplify_schema", "entry")
    /\ LET f == Top
           s == f.schema
       IN  IF ~IsDict(s) \/ IsSimple(s) THEN Return(Val(s))
           ELSE IF IsObject(s)
           THEN IF IsDict(Properties(s))
                THEN Goto([f EXCEPT !.pc = "loop", !.todo = Items(Properties(s))])
                ELSE Return(Raise("AttributeError"))
           ELSE IF IsArray(s) /\ IsReference(s.items)
           THEN IF InPath(s.items.ref.segs, f.path)
                THEN Return(Val(Arr(CircularToSentinel(s.items.ref.segs))))
                ELSE Invoke("await_items",
                            ResolveFrame(s.items.ref.segs, f.depth + 1, f.path))
           ELSE Return(Val(s))
    /\ UNCHANGED <<swagger_data, components, circular_refs, processed_refs,
                   max_recursion_depth, call, ncalls, results, requests>>

\* Lines 102-115: one turn of the loop, or the return after the last one.
SimplifySchemaProperty ==
    /\ Running("simplify_schema", "loop")
    /\ LET f == Top
       IN  IF f.todo = <<>>
           THEN Return(Val(Obj(f.acc)))
           ELSE LET prop_name == Head(f.todo)
                    prop_schema == f.schema.properties[prop_name]
                    Set(v) == [f EXCEPT !.acc = (prop_name :> v) @@ f.acc,
                                        !.todo = Tail(f.todo)]
                IN  IF IsReference(prop_schema)
                    THEN IF InPath(prop_schema.ref.segs, f.path)
                         THEN Goto(Set(CircularToSentinel(prop_schema.ref.segs)))
                         ELSE Invoke("await_prop",
                                     ResolveFrame(prop_schema.ref.segs,
                                                  f.depth + 1, f.path))
                    ELSE Goto(Set(prop_schema))
    /\ UNCHANGED <<swagger_data, components, circular_refs, processed_refs,
                   max_recursion_depth, call, ncalls, results, requests>>

\* Lines 110-112: resolve_ref comes back with the property's schema.
SimplifySchemaPropertyReturn ==
    /\ Running("simplify_schema", "await_prop")
    /\ ret # NoRet
    /\ LET f == Top
       IN  IF ret.kind = "raise"
           THEN Return(ret)
           ELSE Goto([f EXCEPT !.pc = "loop",
                               !.acc = (Head(f.todo) :> ret.v) @@ f.acc,
                               !.todo = Tail(f.todo)])
    /\ UNCHANGED <<swagger_data, components, circular_refs, processed_refs,
                   max_recursion_depth, call, ncalls, results, requests>>

\* Lines 129-132: resolve_ref comes back with the items' schema.
SimplifySchemaItemsReturn ==
    /\ Running("simplify_schema", "await_items")
    /\ ret # NoRet
    /\ IF ret.kind = "raise" THEN Return(ret) ELSE Return(Val(Arr(ret.v)))
    /\ UNCHANGED <<swagger_data, components, circular_refs, processed_refs,
                   max_recursion_depth, call, ncalls, results, requests>>

(* ---------------- generate_example_from_schema, steps ------------------ *)

\* Lines 139-166, up to the call of resolve_ref.
GenerateEntry ==
    /\ Running("generate_example_from_schema", "entry")
    /\ LET f == Top
           s == f.schema
       IN  IF IsBlank(s) THEN Return(Val(EmptyDict))
           ELSE IF DepthReached(f.depth) THEN Return(Val(DepthError))
           ELSE IF Has(s, "ref")
           THEN Invoke("await_resolve", ResolveFrame(s.ref.segs, 0, <<>>))
           ELSE IF Has(s, "example") THEN Return(Val(s.example))
           ELSE IF Has(s, "default") THEN Return(Val(s.default))
           ELSE Return(TypeExample(s))
    /\ UNCHANGED <<swagger_data, components, circular_refs, processed_refs,
                   max_recursion_depth, call, ncalls, results, requests>>

\* Lines 147-148: resolve_ref comes back, generation recurses into its result.
GenerateResolved ==
    /\ Running("generate_example_from_schema", "await_resolve")
    /\ ret # NoRet
    /\ IF ret.kind = "raise"
       THEN Return(ret)
       ELSE Invoke("await_generate", GenerateFrame(ret.v, Top.depth + 1))
    /\ UNCHANGED <<swagger_data, components, circular_refs, processed_refs,
                   max_recursion_depth, call, ncalls, results, requests>>

\* Line 148: the nested generation's value is returned as it is.
GenerateReturn ==
    /\ Running("generate_example_from_schema", "await_generate")
    /\ ret # NoRet
    /\ Return(ret)
    /\ UNCHANGED <<swagger_data, components, circular_refs, processed_refs,
                   max_recursion_depth, call, ncalls, results, requests>>

(* --------------------------- top-level calls --------------------------- *)

CanCall == stack = <<>> /\ ret = NoRet /\ ncalls < MaxCalls

\* self.resolve_ref(ref): depth 0, no path.
CallResolveRef ==
    /\ CanCall
    /\ \E ref \in requests.refs :
          /\ stack' = <<ResolveFrame(ref, 0, <<>>)>>
          /\ call' = [fn |-> "resolve_ref", ref |-> ref, before |-> circular_refs]
    /\ ncalls' = ncalls + 1
    /\ UNCHANGED <<swagger_data, components, circular_refs, processed_refs,
                   max_recursion_depth, ret, results, requests>>

\* self.generate_example_from_schema(schema): depth 0.
CallGenerate ==
    /\ CanCall
    /\ \E schema \in requests.schemas :
          /\ stack' = <<GenerateFrame(schema, 0)>>
          /\ call' = [fn |-> "generate_example_from_schema", schema |-> schema,
                      before |-> circular_refs]
    /\ ncalls' = ncalls + 1
    /\ UNCHANGED <<swagger_data, components, circular_refs, processed_refs,
                   max_recursion_depth, ret, results, requests>>

\* The top-level call is back at its caller, which keeps what it returned.
Finish ==
    /\ stack = <<>>
    /\ ret # NoRet
    /\ results' = results \cup {[call |-> call, out |-> ret]}
    /\ ret' = NoRet
    /\ call' = Idle
    /\ UNCHANGED <<swagger_data, components, circular_refs, processed_refs,
                   max_recursion_depth, stack, ncalls, requests>>

(* ------------------------------ documents ------------------------------ *)

\* '#/definitions/<name>' and '#/components/schemas/<name>'
D(name) == <<"#", "definitions", name>>

C(name) == <<"#", "components", "schemas", name>>

Info == [title |-> Str("api")]

Swagger2(defs) == [swagger |-> Str("2.0"), info |-> Info, definitions |-> defs]

OpenApi3(schemas) ==
    [openapi |-> Str("3.0.0"), info |-> Info, components |-> [schemas |-> schemas]]

Doc(data, refs, schemas) == [data |-> data, refs |-> refs, schemas |-> schemas]

\* Two schemas A and B, each of any of these shapes, written with the pointers
\* pa and pb.
Shapes(pa, pb) ==
    { Prim("string"), Ref(pa), Ref(pb),
      Obj([x |-> Ref(pa), y |-> Ref(pb)]),
      Obj([x |-> Ref(pb), y |-> Ref(pb)]),
      Obj([x |-> Prim("integer"), y |-> Ref(pa)]),
      Obj([x |-> Ref(pa)]),
      Arr(Ref(pa)), Arr(Ref(pb)) }

PairDocs ==
    { Doc(Swagger2([A |-> a, B |-> b]),
          {D("A"), D("B"), C("A")},
          {Ref(D("A")), Arr(Prim("string"))}) :
        a \in Shapes(D("A"), D("B")), b \in Shapes(D("A"), D("B")) }
    \cup
    { Doc(OpenApi3([A |-> a, B |-> b]),
          {C("A"), D("A")},
          {Ref(C("B"))}) :
        a \in Shapes(C("A"), D("B")), b \in {Prim("string"), Ref(D("A"))} }

\* A refers to B from two sibling properties, B refers to C in some way, and C
\* is a leaf, or closes a cycle through A, through B or through itself.
SiblingDocs ==
    { Doc(Swagger2([A |-> Obj([x |-> Ref(D("B")), y |-> Ref(pb)]), B |-> b, C |-> c]),
          {D("A"), D("B")},
          {Ref(D("A"))}) :
        pb \in {D("B"), C("B")},
        b \in {Prim("string"), Ref(D("C")), Arr(Ref(D("C"))),
               Obj([x |-> Ref(D("C")), y |-> Ref(D("C"))]),
               Obj([x |-> Prim("number"), y |-> Ref(D("C"))])},
        c \in {Prim("string"), Obj([v |-> Prim("boolean")]), Ref(D("A")),
               Ref(D("B")), Arr(Ref(D("C")))} }

\* Schemas named "1" .. "n": schema i < n is a link of one kind to schema
\* i + 1, and schema n is `last` (a link back to schema 1 closes a ring).
Name(i) == ToString(i)

Kinds == {"alias", "object", "array"}

Link(kind, ptr) ==
    CASE kind = "alias" -> Ref(ptr)
      [] kind = "object" -> Obj([next |-> Ref(ptr), v |-> Prim("integer")])
      [] kind = "array" -> Arr(Ref(ptr))

Chain(n, kind, last) ==
    [name \in {Name(i) : i \in 1..n} |->
        LET i == CHOOSE j \in 1..n : Name(j) = name
        IN  IF i < n THEN Link(kind, D(Name(i + 1))) ELSE last]

ChainDocs ==
    { Doc(Swagger2(Chain(n, kind, last)), {D("1")}, {Ref(D("1"))}) :
        n \in 1..MaxChain, kind \in Kinds,
        last \in {Prim("string")} \cup {Link(k, D("1")) : k \in Kinds} }

\* Documents with something wrong or unusual in them.
OddDocs ==
    { \* never fetched: swagger_data is None and components is {}
      Doc(None, {D("A"), <<"#">>}, {Ref(D("A"))}),
      \* pointers to nothing, through a string, and into a schema's property
      Doc(Swagger2([A |-> Obj([x |-> Ref(D("B")),
                               y |-> Ref(<<"#", "definitions", "A",
                                           "properties", "x">>)]),
                    B |-> Prim("boolean")]),
          {D("A"), D("Missing"), <<"#", "info", "title", "x">>, <<"#", "paths">>},
          {Ref(<<"#", "info", "title", "x">>), Ref(D("Missing"))}),
      \* an entry that is no mapping, properties that are no mapping
      Doc(Swagger2([A |-> Str("text"),
                    B |-> [type |-> Str("object"), properties |-> None]]),
          {D("A"), D("B")},
          {Ref(D("A")), Ref(D("B")), [type |-> PyList(<<Str("string")>>)]}),
      \* the schemas that generation alone decides
      Doc(OpenApi3([A |-> [type |-> Str("integer"), example |-> PyInt(42)],
                    B |-> Obj([x |-> Ref(C("A")), y |-> Ref(C("A"))])]),
          {C("B"), D("B")},
          {EmptyDict, Prim("integer"), Prim("number"), Prim("boolean"),
           Prim("null"), [type |-> Str("string"), format |-> Str("date")],
           [type |-> Str("integer"), default |-> PyInt(7)],
           Arr(Prim("string")), Arr(Ref(C("A"))), Obj([x |-> Prim("string")]),
           Ref(C("A"))}) }

Docs == PairDocs \cup SiblingDocs \cup ChainDocs \cup OddDocs

(* ---------------------------- specification ---------------------------- *)

\* After __init__ and fetch_swagger_definition.
Init ==
    /\ \E d \in Docs :
          /\ swagger_data = d.data
          /\ components = Components(d.data)
          /\ requests = [refs |-> d.refs, schemas |-> d.schemas]
    /\ circular_refs = {}
    /\ processed_refs = {}
    /\ max_recursion_depth = MaxRecursionDepth
    /\ stack = <<>>
    /\ ret = NoRet
    /\ call = Idle
    /\ ncalls = 0
    /\ results = {}

Step ==
    \/ ResolveRefEntry
    \/ ResolveRefLookup
    \/ ResolveRefReturn
    \/ SimplifySchemaEntry
    \/ SimplifySchemaProperty
    \/ SimplifySchemaPropertyReturn
    \/ SimplifySchemaItemsReturn
    \/ GenerateEntry
    \/ GenerateResolved
    \/ GenerateReturn
    \/ Finish

Next == CallResolveRef \/ CallGenerate \/ Step

Spec == Init /\ [][Next]_vars

\* A call that was made runs to its end: nothing suspends it.
FairSpec == Spec /\ WF_vars(Step)

(* ------------------------- what the claims use ------------------------- *)

\* The top-level call has returned and its caller holds what it returned.
Done == stack = <<>> /\ ret # NoRet

Resolved == Done /\ call.fn = "resolve_ref"

Generated == Done /\ call.fn = "generate_example_from_schema"

\* The pointer names an entry of the Schema Dictionary, in either namespace.
NamesEntry(ref) ==
    (IsDefinitionsRef(ref) \/ IsComponentsRef(ref)) /\ Has(components, SchemaName(ref))

EntryOf(ref) == components[SchemaName(ref)]

\* The entry is an object schema whose properties simplify_schema rebuilds.
IsObjectEntry(ref) ==
    /\ NamesEntry(ref)
    /\ IsDict(EntryOf(ref)) /\ ~Has(EntryOf(ref), "ref")
    /\ ~IsSimple(EntryOf(ref)) /\ IsObject(EntryOf(ref))
    /\ IsDict(Properties(EntryOf(ref)))

\* The pointers a schema refers to: as a bare reference, from its properties
\* or from its items.
RefsOf(schema) ==
    IF ~IsDict(schema) THEN {}
    ELSE IF Has(schema, "ref") THEN {schema.ref.segs}
    ELSE ( IF Has(schema, "properties") /\ IsDict(schema.properties)
           THEN {schema.properties[k].ref.segs :
                   k \in {j \in DOMAIN schema.properties :
                            IsReference(schema.properties[j])}}
           ELSE {} )
         \cup
         ( IF Has(schema, "items") /\ IsReference(schema.items)
           THEN {schema.items.ref.segs} ELSE {} )

Targets(ref) ==
    IF NamesEntry(ref) THEN RefsOf(EntryOf(ref))
    ELSE LET w == Walk(swagger_data, Tail(ref))
         IN  IF w.act = "simplify" THEN RefsOf(w.schema) ELSE {}

RECURSIVE Reach(_, _)
Reach(refs, n) ==
    IF n = 0 THEN refs
    ELSE Reach(refs \cup UNION {Targets(r) : r \in refs}, n - 1)

\* Everything reachable from the pointers, themselves included.
Closure(refs) == Reach(refs, 2 * Cardinality(DOMAIN components) + 2)

\* Two pointers to the same entry are the same schema.
Key(ref) == IF NamesEntry(ref) THEN <<"entry", SchemaName(ref)>> ELSE ref

\* No schema reachable from the pointer reaches itself again.
Acyclic(ref) ==
    \A q \in Closure({ref}) :
        Key(q) \notin {Key(r) : r \in Closure(Targets(q))}

\* The pointer is being expanded: a resolve_ref call for it is waiting for the
\* call it made.
Expanding(ref) ==
    \E i \in 1..Len(stack) :
        stack[i].fn = "resolve_ref" /\ stack[i].pc = "await" /\ stack[i].ref = ref

\* The document is a chain "1" -> "2" -> ... of links of one kind, n long.
IsChain(n, kind) ==
    /\ DOMAIN components = {Name(i) : i \in 1..n}
    /\ \A i \in 1..(n - 1) : components[Name(i)] = Link(kind, D(Name(i + 1)))

\* Every link of a chain costs resolve_ref one level of depth, and one more if
\* simplify_schema is what follows the link.
Hop(kind) == IF kind = "alias" THEN 1 ELSE 2

\* The first schema of the chain that resolve_ref is entered for at the
\* maximum depth.
CutAt(kind) ==
    CHOOSE i \in 1..(MaxRecursionDepth + 1) :
        /\ (i - 1) * Hop(kind) >= MaxRecursionDepth
        /\ \A j \in 1..(i - 1) : (j - 1) * Hop(kind) < MaxRecursionDepth

\* The chain from schema i on, expanded up to schema `cut` and with the
\* max-depth sentinel in its place.
RECURSIVE Truncated(_, _, _)
Truncated(kind, i, cut) ==
    IF i >= cut THEN MaxDepthSentinel(D(Name(i)))
    ELSE LET inner == Truncated(kind, i + 1, cut)
         IN  CASE kind = "alias" -> inner
               [] kind = "object" -> Obj([next |-> inner, v |-> Prim("integer")])
               [] kind = "array" -> Arr(inner)

SameInput(c1, c2) ==
    /\ c1.fn = c2.fn
    /\ c1.fn = "resolve_ref" => c1.ref = c2.ref
    /\ c1.fn = "generate_example_from_schema" => c1.schema = c2.schema

\* What the calls made so far returned, the one that just returned included.
Outcomes == results \cup (IF Done THEN {[call |-> call, out |-> ret]} ELSE {})

(* ------------------------------- claims -------------------------------- *)

\* C1: every top-level resolve_ref and generate_example_from_schema call
\* terminates, whatever cycles the dictionary holds: a reference is looked up
\* only while the depth counter is below the maximum depth, the chain of nested
\* calls never grows past two calls per level of depth, and every call that
\* was made returns.
C1_Termination ==
    /\ [](\A i \in 1..Len(stack) :
            (stack[i].fn = "resolve_ref" /\ stack[i].pc # "entry")
                => stack[i].depth < max_recursion_depth)
    /\ [](Len(stack) <= 2 * (max_recursion_depth + 1))
    /\ [](call # Idle => <>(call = Idle))

\* A generation that ran into a cycle of references has returned.
C1_Witness == Generated /\ circular_refs # call.before

\* C2: resolving, with an empty registry, the pointer of an object schema whose
\* only references are properties referring to that same pointer returns the
\* object with those properties replaced by the "Circular reference to"
\* sentinel, and leaves exactly that pointer in the registry.
C2_SelfReference ==
    ( /\ Resolved /\ call.before = {}
      /\ IsObjectEntry(call.ref)
      /\ RefsOf(EntryOf(call.ref)) = {call.ref} )
    => /\ ret.kind = "value"
       /\ \A k \in DOMAIN EntryOf(call.ref).properties :
             IsReference(EntryOf(call.ref).properties[k])
                => ret.v.properties[k] = CircularToSentinel(call.ref)
       /\ circular_refs = {call.ref}

\* The two sibling properties k1 and k2 of the entry the call resolved refer
\* to the same acyclic entry.
Siblings(k1, k2) ==
    LET props == EntryOf(call.ref).properties
    IN  /\ k1 # k2
        /\ IsReference(props[k1]) /\ IsReference(props[k2])
        /\ NamesEntry(props[k1].ref.segs)
        /\ Key(props[k1].ref.segs) = Key(props[k2].ref.segs)
        /\ Acyclic(props[k1].ref.segs)

SiblingsResolved ==
    (Resolved /\ IsObjectEntry(call.ref) /\ ret.kind = "value")
    => \A k1, k2 \in DOMAIN EntryOf(call.ref).properties :
          Siblings(k1, k2)
          => LET p == EntryOf(call.ref).properties[k1].ref.segs
             IN  /\ ret.v.properties[k1] = ret.v.properties[k2]
                 /\ ret.v.properties[k1] \notin
                       {CircularToSentinel(p), CircularSentinel(p)}
                 /\ ~IsReference(ret.v.properties[k1])
                 /\ p \notin circular_refs

\* A step treats a pointer as a cycle (adds it to the registry, or stores the
\* "Circular reference to" sentinel for a property) only if the pointer is
\* being expanded.
CycleOnlyWhileExpanding ==
    /\ \A r \in circular_refs' \ circular_refs : Expanding(r)
    /\ ( /\ Running("simplify_schema", "loop") /\ Top.todo # <<>>
         /\ IsReference(Top.schema.properties[Head(Top.todo)])
         /\ Len(stack') = Len(stack)
         /\ stack'[Len(stack)].pc = "loop" )
       => Expanding(Top.schema.properties[Head(Top.todo)].ref.segs)

\* C3: two sibling properties referring to the same acyclic schema resolve to
\* the same schema, neither to a cycle sentinel, and the schema's pointer does
\* not enter the registry; a pointer is treated as a cycle only while it is
\* being expanded.
C3_NonCycleRevisit == []SiblingsResolved /\ [][CycleOnlyWhileExpanding]_vars

\* Both siblings were expanded to an object schema.
C3_Witness ==
    /\ Resolved /\ IsObjectEntry(call.ref) /\ ret.kind = "value"
    /\ \E k1, k2 \in DOMAIN EntryOf(call.ref).properties :
          Siblings(k1, k2) /\ TypeIs(ret.v.properties[k1], "object")

\* C4: resolve_ref never lets an exception reach its caller: it returns a
\* schema for every pointer and every document, and the "Failed to resolve"
\* sentinel when the lookup of its pointer fails.
C4_NeverRaises ==
    Resolved
    => /\ ret.kind = "value"
       /\ Lookup(call.ref).act = "raise" => ret.v = FailedSentinel(call.ref)

\* C5: an array schema with items and no example or default generates a list
\* of one element, ["string"] for items of type string.
C5_ArrayGeneration ==
    ( /\ Generated
      /\ IsArray(call.schema)
      /\ ~Has(call.schema, "ref") /\ ~Has(call.schema, "example")
      /\ ~Has(call.schema, "default") )
    => /\ ret.kind = "value"
       /\ ~IsDict(ret.v) /\ ret.v.py = "list" /\ Has(ret.v, "elems")
       /\ Len(ret.v.elems) = 1
       /\ call.schema.items = Prim("string") => ret.v.elems = <<Str("string")>>

\* On a chain long enough for the depth counter to reach the maximum, the call
\* returns the chain expanded down to the schema entered at that depth, with
\* the max-depth sentinel naming that schema's pointer in its place.
LongChainResolved ==
    Done =>
      \A kind \in Kinds :
        LET n == Cardinality(DOMAIN components)
        IN  (IsChain(n, kind) /\ n >= CutAt(kind))
            => /\ ret.kind = "value"
               /\ call.fn = "resolve_ref"
                    => ret.v = Truncated(kind, 1, CutAt(kind))
               /\ (call.fn = "generate_example_from_schema" /\ kind = "alias")
                    => ret.v = MaxDepthSentinel(D(Name(CutAt(kind)))).example

\* A resolve_ref call entered at the maximum depth or beyond returns the
\* max-depth sentinel naming its own pointer, and does nothing else.
DepthGuardReturnsSentinel ==
    (Running("resolve_ref", "entry") /\ Top.depth >= max_recursion_depth)
    => /\ ret' = Val(MaxDepthSentinel(Top.ref))
       /\ stack' = Below
       /\ circular_refs' = circular_refs

\* C6: a chain of references longer than the maximum depth resolves without an
\* exception, the call entered at depth >= 10 returning the sentinel that
\* names its pointer; generation from a reference into the chain returns a
\* value.
C6_DepthFallback == []LongChainResolved /\ [][DepthGuardReturnsSentinel]_vars

\* The resolution of a chain of bare references was cut at its eleventh schema.
C6_Witness ==
    /\ Resolved
    /\ IsChain(Cardinality(DOMAIN components), "alias")
    /\ ret = Val(MaxDepthSentinel(D(Name(MaxRecursionDepth + 1))))

Concrete(schema) ==
    /\ ~IsReference(schema)
    /\ (IsDict(schema) /\ Has(schema, "properties") /\ IsDict(schema.properties))
          => \A k \in DOMAIN schema.properties :
                ~IsReference(schema.properties[k])
    /\ (IsDict(schema) /\ Has(schema, "items")) => ~IsReference(schema.items)

\* C7: the schema resolve_ref returns for a pointer naming a dictionary entry
\* is no reference, and neither are its properties nor its items.
C7_Concrete ==
    (Resolved /\ NamesEntry(call.ref) /\ ret.kind = "value") => Concrete(ret.v)

\* C8: calls with the same input on the same dictionary return the same
\* result, whatever the registry held and whatever was called before.
C8_Deterministic ==
    \A r1, r2 \in Outcomes : SameInput(r1.call, r2.call) => r1.out = r2.out

\* The same call was made twice, the second time with a registry the first
\* had filled.
C8_Witness ==
    \E r1, r2 \in results :
        /\ SameInput(r1.call, r2.call)
        /\ r1.call.before = {} /\ r2.call.before # {}

\* resolve_ref entered for a pointer on its path returns a cycle sentinel,
\* without a lookup (the claim as stated).
EntryOnPathIsCycle ==
    (Running("resolve_ref", "entry") /\ Top.ref \in Range(Top.path))
    => ret' = Val(CircularSentinel(Top.ref)) /\ stack' = Below

\* resolve_ref entered for a pointer on its path returns without a lookup: the
\* max-depth sentinel at depth >= 10, a cycle sentinel below.
EntryOnPathIsSentinel ==
    (Running("resolve_ref", "entry") /\ Top.ref \in Range(Top.path))
    => /\ stack' = Below
       /\ ret' = IF Top.depth >= max_recursion_depth
                 THEN Val(MaxDepthSentinel(Top.ref))
                 ELSE Val(CircularSentinel(Top.ref))

\* simplify_schema stores a cycle sentinel for a property, and returns one for
\* the items, whose reference is on the path, and calls nothing.
SimplifyOnPathIsSentinel ==
    /\ ( /\ Running("simplify_schema", "loop") /\ Top.todo # <<>>
         /\ IsReference(Top.schema.properties[Head(Top.todo)])
         /\ Top.schema.properties[Head(Top.todo)].ref.segs \in Range(Top.path) )
       => /\ Len(stack') = Len(stack)
          /\ stack'[Len(stack)].acc[Head(Top.todo)] =
                CircularToSentinel(Top.schema.properties[Head(Top.todo)].ref.segs)
    /\ ( /\ Running("simplify_schema", "entry")
         /\ IsDict(Top.schema) /\ ~IsSimple(Top.schema) /\ ~IsObject(Top.schema)
         /\ IsArray(Top.schema) /\ IsReference(Top.schema.items)
         /\ Top.schema.items.ref.segs \in Range(Top.path) )
       => /\ stack' = Below
          /\ ret' = Val(Arr(CircularToSentinel(Top.schema.items.ref.segs)))

\* No call that got past its guards is for a pointer on its own path, and no
\* path holds a pointer twice.
NoReentry ==
    \A i \in 1..Len(stack) :
        /\ (stack[i].fn = "resolve_ref" /\ stack[i].pc # "entry")
              => stack[i].ref \notin Range(stack[i].path)
        /\ \A j, k \in 1..Len(stack[i].path) :
              stack[i].path[j] = stack[i].path[k] => j = k

\* C9 as stated: every entry of resolve_ref for a pointer on the path returns
\* a cycle sentinel.
C9_Original ==
    []NoReentry /\ [][EntryOnPathIsCycle /\ SimplifyOnPathIsSentinel]_vars

\* C9, amended: no entry is looked up for a pointer on the current path.
\* resolve_ref entered for such a pointer returns without a lookup, a cycle
\* sentinel if its depth is below the maximum and the max-depth sentinel
\* otherwise; simplify_schema replaces a property or items reference on the
\* path by a cycle sentinel; the path never holds a pointer twice.
C9_NoReentry ==
    []NoReentry /\ [][EntryOnPathIsSentinel /\ SimplifyOnPathIsSentinel]_vars

\* A nested resolve_ref has just returned the cycle sentinel for a pointer
\* that was on its path.
C9_Witness ==
    /\ stack # <<>> /\ ret.kind = "value"
    /\ \E r \in circular_refs : ret.v = CircularSentinel(r) /\ Expanding(r)

\* C10: no step of a call changes the document, the dictionary or any other
\* field of the converter but the registry, and the registry only grows.
C10_Frame ==
    [][ /\ swagger_data' = swagger_data
        /\ components' = components
        /\ processed_refs' = processed_refs
        /\ max_recursion_depth' = max_recursion_depth
        /\ circular_refs \subseteq circular_refs' ]_vars

\* A call has added to a registry that earlier calls had filled.
C10_Witness ==
    Done /\ call.before # {} /\ circular_refs # call.before

=============================================================================
